---- MODULE Spec2Model ----
(***************************************************************************)
(* msckf_mono RosInterface (src/src/ros_interface.cpp): the inertial       *)
(* buffer imu_queue_, its producer imuCallback and its consumer            *)
(* imageCallback, with the calls imageCallback makes on the tracker.       *)
(*                                                                         *)
(* Timestamps (double seconds in the code) are integers here, angular      *)
(* velocities and accelerations are integer 3-vectors, the extrinsic       *)
(* transform is an integer 4x4 matrix.                                     *)
(***************************************************************************)
EXTENDS Integers, Sequences, FiniteSets, TLC

\* Largest timestamp an inertial or image message carries.
MaxTime == 1
\* Number of messages (inertial and image together) delivered in one run.
MaxEvents == 5

Stamps == 0..MaxTime

\* Payloads of sensor_msgs::Imu: linear_acceleration and angular_velocity.
ImuBodies ==
  { [linear_acceleration |-> <<0, 0, 9>>, angular_velocity |-> <<0, 0, 1>>],
    [linear_acceleration |-> <<1, 0, 9>>, angular_velocity |-> <<1, 2, 3>>] }

ImuMsgs ==
  { [stamp |-> t, linear_acceleration |-> b.linear_acceleration,
     angular_velocity |-> b.angular_velocity] : t \in Stamps, b \in ImuBodies }

\* sensor_msgs::Image: its stamp and whether cv_bridge::toCvCopy can convert it.
ImageMsgs == [stamp : Stamps, decodable : BOOLEAN]

\* Values of the T_cam_imu parameter: the identity, and a quarter turn about z
\* with a translation (its rotation block is not symmetric).
Transforms ==
  { << <<1, 0, 0, 0>>, <<0, 1, 0, 0>>, <<0, 0, 1, 0>>, <<0, 0, 0, 1>> >>,
    << <<0, -1, 0, 1>>, <<1, 0, 0, 2>>, <<0, 0, 1, 3>>, <<0, 0, 0, 1>> >> }

VARIABLES
  params,            \* the parameter server, as load_parameters reads it
  runs,              \* history: what each start of the node ended with
  T_cam_imu,         \* the matrix held by the <camera>/T_cam_imu parameter
  imu_queue_,        \* std::vector<std::tuple<double, imuReading<float>>>
  is_first_imu_,     \* bool
  prev_imu_time_,    \* double
  R_cam_imu_,        \* Matrix3<float>, set by load_parameters
  num_subscribers,   \* track_image_pub_.getNumSubscribers()
  capacity,          \* imu_queue_.capacity()
  storage,           \* which allocation holds imu_queue_'s elements
  img,               \* the imageCallback in progress: its position and locals
  calls,             \* history: calls imageCallback made (tracker, publish_extra)
  imu_received,      \* history: the inertial messages delivered to imuCallback
  frames             \* history: the image messages delivered to imageCallback

vars == << params, runs, T_cam_imu, imu_queue_, is_first_imu_, prev_imu_time_, R_cam_imu_,
           num_subscribers, capacity, storage, img, calls, imu_received, frames >>

----------------------------------------------------------------------------
\* Eigen: T.block<3,3>(0,0), M.transpose(), M * v

block_3_3(T) == [i \in 1..3 |-> [j \in 1..3 |-> T[i][j]]]

\* Mutant of transpose: the matrix as it is.
not_transposed(M) == M

transpose(M) == [i \in 1..3 |-> [j \in 1..3 |-> M[j][i]]]

times_vec(M, v) == [i \in 1..3 |-> M[i][1] * v[1] + M[i][2] * v[2] + M[i][3] * v[3]]

\* load_parameters: R_cam_imu_ = T_cam_imu_.block<3,3>(0,0)
load_R_cam_imu(T) == block_3_3(T)

----------------------------------------------------------------------------
\* std::vector and <algorithm> as imuCallback and imageCallback use them.
\* An iterator is an index into the sequence; end() is Len + 1.

\* Mutant of emplace_back: puts the new element in front.
emplace_front(q, e) == << e >> \o q

emplace_back(q, e) == Append(q, e)

\* emplace_back on a full vector moves the elements to a new allocation of
\* twice the size (libstdc++, libc++), which invalidates every iterator.
reallocates(q, cap) == Len(q) = cap

grown(cap) == IF cap = 0 THEN 1 ELSE 2 * cap

\* Mutant of find_if: stops at an element stamped cur_image_time as well.
RECURSIVE find_if_not_before(_, _, _)
find_if_not_before(q, first, cur_image_time) ==
  IF first > Len(q) THEN first
  ELSE IF q[first][1] >= cur_image_time THEN first
  ELSE find_if_not_before(q, first + 1, cur_image_time)

\* std::find_if(first, end, [&](x){ return std::get<0>(x) > cur_image_time; })
RECURSIVE find_if(_, _, _)
find_if(q, first, cur_image_time) ==
  IF first > Len(q) THEN first
  ELSE IF q[first][1] > cur_image_time THEN first
  ELSE find_if(q, first + 1, cur_image_time)

\* Mutant of transform_get1: starts copying at the second element.
transform_from_second(q, frame_end) == [i \in 1..(frame_end - 2) |-> q[i + 1][2]]

\* std::transform(begin, frame_end, back_inserter, [](x){ return std::get<1>(x); })
transform_get1(q, frame_end) == [i \in 1..(frame_end - 1) |-> q[i][2]]

\* Mutant of erase_begin_to: erases the element at frame_end too.
erase_through(q, frame_end) == SubSeq(q, frame_end + 1, Len(q))

\* imu_queue_.erase(imu_queue_.begin(), frame_end)
erase_begin_to(q, frame_end) == SubSeq(q, frame_end, Len(q))

----------------------------------------------------------------------------
\* One entry of the call history. frame is the number of the image message
\* whose imageCallback made the call.
Call(op, v, t, frame) == [op |-> op, v |-> v, t |-> t, frame |-> frame]

\* imageCallback lines 70-74: one add_gyro_reading per copied reading, in order.
gyro_calls(R, imu_since_prev_img, frame) ==
  [i \in 1..Len(imu_since_prev_img) |->
     Call("add_gyro_reading",
          times_vec(transpose(R), imu_since_prev_img[i].omega), -1, frame)]

\* Mutant of publish_extra: fetches and publishes the image whoever listens.
publish_extra_always(publish_time, subscribers, frame) ==
  << Call("publish_extra", <<>>, publish_time, frame),
     Call("get_track_image", <<>>, -1, frame),
     Call("publish", <<>>, publish_time, frame) >>

\* publish_extra: get_track_image and publish only when somebody subscribes.
publish_extra(publish_time, subscribers, frame) ==
  << Call("publish_extra", <<>>, publish_time, frame) >>
  \o (IF subscribers > 0
      THEN << Call("get_track_image", <<>>, -1, frame),
              Call("publish", <<>>, publish_time, frame) >>
      ELSE << >>)

\* imageCallback lines 79-94, after the drain.
frame_calls(cur_image_time, subscribers, frame) ==
  << Call("set_current_image", <<>>, cur_image_time, frame),
     Call("tracked_features", <<>>, -1, frame),
     Call("new_features", <<>>, -1, frame) >>
  \o publish_extra(cur_image_time, subscribers, frame)

\* Mutant of image_calls: hands the image over before the readings.
image_calls_image_first(R, imu_since_prev_img, cur_image_time, subscribers, frame) ==
  frame_calls(cur_image_time, subscribers, frame)
  \o gyro_calls(R, imu_since_prev_img, frame)

\* Mutant of image_calls: returns early when there is nothing to forward.
image_calls_unless_empty(R, imu_since_prev_img, cur_image_time, subscribers, frame) ==
  IF imu_since_prev_img = << >> THEN << >>
  ELSE gyro_calls(R, imu_since_prev_img, frame)
       \o frame_calls(cur_image_time, subscribers, frame)

\* The calls of one imageCallback on a decoded image, in program order.
image_calls(R, imu_since_prev_img, cur_image_time, subscribers, frame) ==
  gyro_calls(R, imu_since_prev_img, frame)
  \o frame_calls(cur_image_time, subscribers, frame)

----------------------------------------------------------------------------
\* The parameter server and what load_parameters (lines 126-240) makes of it.
\* A float that is only stored is the decimal m * 10^e, written Dec(m, e);
\* the intrinsics, feature_covariance and max_gn_cost_norm, which the code
\* divides, are integers, and pow(x / f, 2) is the fraction x*x / f*f.

Dec(m, e) == << m, e >>

\* XmlRpc::XmlRpcValue: a type tag, a number (TypeDouble, TypeInt), the
\* elements (TypeArray).
XmlInvalid == [type |-> "invalid", num |-> 0, elems |-> << >>]
XmlString == [type |-> "string", num |-> 0, elems |-> << >>]
XmlDouble(x) == [type |-> "double", num |-> x, elems |-> << >>]
XmlInt(x) == [type |-> "int", num |-> x, elems |-> << >>]
XmlArray(es) == [type |-> "array", num |-> 0, elems |-> es]

\* A matrix written with a decimal point in every entry.
XmlMatrix(rows) ==
  XmlArray([i \in 1..Len(rows) |->
              XmlArray([j \in 1..Len(rows[i]) |-> XmlDouble(rows[i][j])])])

QuarterTurn == << <<0, -1, 0, 1>>, <<1, 0, 0, 2>>, <<0, 0, 1, 3>>, <<0, 0, 0, 1>> >>

\* What <camera>/T_cam_imu can hold: nothing (getParam leaves the value
\* TypeInvalid), a scalar, an array of scalars, a 4x4 matrix of doubles, one
\* with a string entry, one written without decimal points, a 3x4 and a 4x3
\* matrix of doubles. Arrays with more than four rows or columns, which
\* line 163 would write outside T_cam_imu_, are left out.
TParams ==
  { XmlInvalid,
    XmlDouble(1),
    XmlArray(<< XmlDouble(1), XmlDouble(0), XmlDouble(0), XmlDouble(0) >>),
    [XmlMatrix(QuarterTurn) EXCEPT !.elems[2].elems[3] = XmlString],
    XmlArray([i \in 1..4 |-> XmlArray([j \in 1..4 |-> XmlInt(QuarterTurn[i][j])])]),
    XmlMatrix(SubSeq(QuarterTurn, 1, 3)),
    XmlMatrix([i \in 1..4 |-> SubSeq(QuarterTurn[i], 1, 3)]) }
  \cup { XmlMatrix(T) : T \in Transforms }

\* <camera>/intrinsics, in Kalibr's order f_u, f_v, c_u, c_v.
Intrinsics == { <<300, 300, 320, 240>>, <<458, 457, 367, 248>> }

\* A scalar parameter: on the server with a value, or not there.
Given(v) == [present |-> TRUE, value |-> v]
Absent(v) == [present |-> FALSE, value |-> v]

\* The parameters of one launch: the camera's, and three groups of tunables,
\* each either all given or all absent.
Config(intrinsics, T, tracker, noise, filter) ==
  LET Tr(v) == IF tracker THEN Given(v) ELSE Absent(v)
      No(v) == IF noise THEN Given(v) ELSE Absent(v)
      Fi(v) == IF filter THEN Given(v) ELSE Absent(v)
  IN [ camera_model |-> "pinhole",
       intrinsics |-> intrinsics,
       distortion_model |-> "radtan",
       distortion_coeffs |-> << Dec(-28, -2), Dec(7, -2), Dec(2, -4), Dec(2, -5) >>,
       T_cam_imu |-> T,
       n_grid_rows |-> Tr(6),
       n_grid_cols |-> Tr(10),
       ransac_threshold_ |-> Tr(Dec(5, -4)),
       feature_covariance |-> No(5),
       w_var |-> No(Dec(2, -5)),
       dbg_var |-> No(Dec(4, -5)),
       a_var |-> No(Dec(2, -3)),
       dba_var |-> No(Dec(8, -4)),
       q_var_init |-> No(Dec(2, -5)),
       bg_var_init |-> No(Dec(2, -2)),
       v_var_init |-> No(Dec(3, -2)),
       ba_var_init |-> No(Dec(4, -2)),
       p_var_init |-> No(Dec(2, -12)),
       max_gn_cost_norm |-> Fi(20),
       translation_threshold |-> Fi(Dec(1, -1)),
       min_rcond |-> Fi(Dec(1, -9)),
       keyframe_transl_dist |-> Fi(Dec(1, -2)),
       keyframe_rot_dist |-> Fi(Dec(2, -1)),
       max_track_length |-> Fi(500),
       min_track_length |-> Fi(5),
       max_cam_states |-> Fi(30) ]

Configs ==
  { Config(i, T, tr, no, fi) :
      i \in Intrinsics, T \in TParams, tr \in BOOLEAN, no \in BOOLEAN, fi \in BOOLEAN }

\* nh_.param<T>(key, out, default)
nh_param(p, default) == IF p.present THEN p.value ELSE default

\* Defaults that are whole numbers (lines 170, 171, 186, 219, 225-227).
default_n_grid_rows == 8
default_n_grid_cols == 8
default_feature_covariance == 7
default_max_gn_cost_norm == 11
default_max_track_length == 1000
default_min_track_length == 3
default_max_cam_states == 20

\* pow(x / f, 2)
pow_ratio_2(x, f) == [num |-> x * x, den |-> f * f]

\* Lines 156-162: every ROS_ASSERT on the way through the loops holds.
asserts_hold(v) ==
  /\ v.type = "array"
  /\ \A i \in 1..Len(v.elems) :
       /\ v.elems[i].type = "array"
       /\ \A j \in 1..Len(v.elems[i].elems) : v.elems[i].elems[j].type = "double"

\* Line 163: the entries of T_cam_imu_ the loops assign. T_cam_imu_ is a
\* local Matrix4<float>, which Eigen does not initialize.
assigned(v) ==
  { << i, j >> : i \in 1..Len(v.elems), j \in 1..4 } \cap
  { ij \in (1..4) \X (1..4) : ij[2] <= Len(v.elems[ij[1]].elems) }

\* The entries of T_cam_imu_ that lines 167-168 read and the loops left
\* alone; the lines are not reached after a failed ROS_ASSERT.
unassigned(v) == IF asserts_hold(v) THEN ((1..3) \X (1..4)) \ assigned(v) ELSE {}

\* What an object that was never assigned may hold.
Indeterminate == {0, 7}
IndeterminateFloats == { Dec(2, -6), Dec(9, -1) }

\* T_cam_imu_ after the loops; junk gives the unassigned entries.
loaded_T(v, junk) ==
  [i \in 1..4 |-> [j \in 1..4 |->
     IF << i, j >> \in assigned(v) THEN v.elems[i].elems[j].num
     ELSE IF << i, j >> \in DOMAIN junk THEN junk[<< i, j >>]
     ELSE 0]]

\* T_cam_imu_.block<3,1>(0,3)
block_3_1(T) == [i \in 1..3 |-> T[i][4]]

\* load_parameters on the parameters p. member_ransac is what the member
\* ransac_threshold_ holds: line 173 declares a local of the same name, and
\* line 174 fills the local.
load_parameters(p, junk, member_ransac) ==
  LET intrinsics == p.intrinsics
      K_ == << << intrinsics[1], 0, intrinsics[3] >>,
               << 0, intrinsics[2], intrinsics[4] >>,
               << 0, 0, 1 >> >>
      T_cam_imu_ == loaded_T(p.T_cam_imu, junk)
      R == load_R_cam_imu(T_cam_imu_)
      pos == block_3_1(T_cam_imu_)
      local_ransac_threshold_ == nh_param(p.ransac_threshold_, Dec(2, -6))
      camera_ == [ c_u |-> intrinsics[1], c_v |-> intrinsics[2],
                   f_u |-> intrinsics[3], f_v |-> intrinsics[4],
                   q_CI |-> R, p_C_I |-> pos ]
      feature_cov == nh_param(p.feature_covariance, default_feature_covariance)
      w_var == nh_param(p.w_var, Dec(1, -5))
      dbg_var == nh_param(p.dbg_var, Dec(36733, -9))
      a_var == nh_param(p.a_var, Dec(1, -3))
      dba_var == nh_param(p.dba_var, Dec(7, -4))
      q_var_init == nh_param(p.q_var_init, Dec(1, -5))
      bg_var_init == nh_param(p.bg_var_init, Dec(1, -2))
      v_var_init == nh_param(p.v_var_init, Dec(1, -2))
      ba_var_init == nh_param(p.ba_var_init, Dec(1, -2))
      p_var_init == nh_param(p.p_var_init, Dec(1, -12))
      max_gn == nh_param(p.max_gn_cost_norm, default_max_gn_cost_norm)
  IN [ camera_model_ |-> p.camera_model,
       K_ |-> K_,
       distortion_model_ |-> p.distortion_model,
       dist_coeffs_ |-> p.distortion_coeffs,
       R_cam_imu_ |-> R,
       p_cam_imu_ |-> pos,
       n_grid_rows_ |-> nh_param(p.n_grid_rows, default_n_grid_rows),
       n_grid_cols_ |-> nh_param(p.n_grid_cols, default_n_grid_cols),
       ransac_threshold_ |-> member_ransac,
       camera_ |-> camera_,
       noise_params_ |->
         [ initial_imu_covar |->
             << q_var_init, q_var_init, q_var_init,
                bg_var_init, bg_var_init, bg_var_init,
                v_var_init, v_var_init, v_var_init,
                ba_var_init, ba_var_init, ba_var_init,
                p_var_init, p_var_init, p_var_init >>,
           Q_imu |-> << w_var, w_var, w_var, dbg_var, dbg_var, dbg_var,
                        a_var, a_var, a_var, dba_var, dba_var, dba_var >>,
           u_var_prime |-> pow_ratio_2(feature_cov, camera_.f_u),
           v_var_prime |-> pow_ratio_2(feature_cov, camera_.f_v) ],
       msckf_params_ |->
         [ max_gn_cost_norm |-> pow_ratio_2(max_gn, camera_.f_u),
           translation_threshold |-> nh_param(p.translation_threshold, Dec(5, -2)),
           min_rcond |-> nh_param(p.min_rcond, Dec(3, -12)),
           redundancy_angle_thresh |-> nh_param(p.keyframe_transl_dist, Dec(5, -3)),
           redundancy_distance_thresh |-> nh_param(p.keyframe_rot_dist, Dec(5, -2)),
           max_track_length |-> nh_param(p.max_track_length, default_max_track_length),
           min_track_length |-> nh_param(p.min_track_length, default_min_track_length),
           max_cam_states |-> nh_param(p.max_cam_states, default_max_cam_states) ] ]

\* setup_track_handler (lines 113-118): what the tracker is constructed and
\* configured with.
setup_track_handler(m) ==
  [ K |-> m.K_, dist_coeffs |-> m.dist_coeffs_, distortion_model |-> m.distortion_model_,
    grid_rows |-> m.n_grid_rows_, grid_cols |-> m.n_grid_cols_,
    ransac_threshold |-> m.ransac_threshold_ ]

\* The constructor, lines 10-11: a failed ROS_ASSERT ends the process;
\* otherwise the members are loaded and the tracker is set up from them.
constructed(p, junk, member_ransac) ==
  IF ~asserts_hold(p.T_cam_imu)
  THEN [aborted |-> TRUE, members |-> << >>, track_handler_ |-> << >>]
  ELSE LET m == load_parameters(p, junk, member_ransac)
       IN [aborted |-> FALSE, members |-> << m >>,
           track_handler_ |-> << setup_track_handler(m) >>]

----------------------------------------------------------------------------
\* is_first_imu_ when the first message arrives. The constructor (lines 5-9)
\* does not set it and its declaration is in ros_interface.h; the value is the
\* one under which "the very first sample received after (re)start is
\* recorded only to seed this gap".
is_first_imu_at_start == TRUE

\* No imageCallback is running.
Idle == [pc |-> "idle", stamp |-> 0, last |-> 1,
         frame_end |-> [storage |-> 0, at |-> 1], imu_since_prev_img |-> << >>]

Init ==
  /\ imu_queue_ = << >>
  /\ is_first_imu_ = is_first_imu_at_start
  /\ prev_imu_time_ \in Stamps      \* not set by the constructor
  /\ T_cam_imu \in Transforms
  /\ params = Config(<<300, 300, 320, 240>>, XmlMatrix(T_cam_imu), FALSE, FALSE, FALSE)
  /\ runs = << >>
  /\ R_cam_imu_ = load_R_cam_imu(T_cam_imu)
  /\ num_subscribers \in 0..1
  /\ capacity = 0
  /\ storage = 0
  /\ img = Idle
  /\ calls = << >>
  /\ imu_received = << >>
  /\ frames = << >>

\* The node is up and the run has messages left to deliver.
MoreEvents ==
  /\ img.pc # "crashed"
  /\ Len(imu_received) + Len(frames) + (IF img.pc = "idle" THEN 0 ELSE 1) < MaxEvents

\* Mutant of imuCallback: enqueues the first message like any other.
imuCallback_enqueues_first(imu) ==
  LET cur_imu_time == imu.stamp
      current_imu == [a |-> imu.linear_acceleration,
                      omega |-> imu.angular_velocity,
                      dT |-> cur_imu_time - prev_imu_time_]
  IN /\ imu_received' = Append(imu_received, imu)
     /\ imu_queue_' = emplace_back(imu_queue_, << cur_imu_time, current_imu >>)
     /\ prev_imu_time_' = (IF is_first_imu_ THEN cur_imu_time ELSE prev_imu_time_)
     /\ is_first_imu_' = FALSE
     /\ IF reallocates(imu_queue_, capacity)
        THEN capacity' = grown(capacity) /\ storage' = storage + 1
        ELSE UNCHANGED << capacity, storage >>
     /\ UNCHANGED << params, runs, T_cam_imu, R_cam_imu_, num_subscribers, img, calls, frames >>

imuCallback(imu) ==
  LET cur_imu_time == imu.stamp IN
  /\ imu_received' = Append(imu_received, imu)
  /\ IF is_first_imu_
     THEN /\ prev_imu_time_' = cur_imu_time
          /\ is_first_imu_' = FALSE
          /\ UNCHANGED imu_queue_
     ELSE LET current_imu == [a |-> imu.linear_acceleration,
                              omega |-> imu.angular_velocity,
                              dT |-> cur_imu_time - prev_imu_time_]
          IN /\ imu_queue_' = emplace_back(imu_queue_, << cur_imu_time, current_imu >>)
             /\ UNCHANGED << is_first_imu_, prev_imu_time_ >>
  /\ IF ~is_first_imu_ /\ reallocates(imu_queue_, capacity)
     THEN capacity' = grown(capacity) /\ storage' = storage + 1
     ELSE UNCHANGED << capacity, storage >>
  /\ UNCHANGED << params, runs, T_cam_imu, R_cam_imu_, num_subscribers, img, calls, frames >>

\* Mutant of decode_failed: empties the buffer on the way out.
decode_failed_drains(msg) ==
  /\ frames' = Append(frames, [stamp |-> -1, decoded |-> FALSE,
                               held |-> Len(imu_queue_),
                               imu_since_prev_img |-> << >>])
  /\ imu_queue_' = << >>
  /\ UNCHANGED calls

\* Mutant of decode_failed: throws the oldest buffered sample away.
decode_failed_pops(msg) ==
  /\ frames' = Append(frames, [stamp |-> -1, decoded |-> FALSE,
                               held |-> Len(imu_queue_),
                               imu_since_prev_img |-> << >>])
  /\ imu_queue_' = (IF imu_queue_ = << >> THEN << >> ELSE Tail(imu_queue_))
  /\ UNCHANGED calls

\* imageCallback lines 53-57: toCvCopy threw, the callback returns. Nothing
\* has used cur_image_time, and the history does not keep it. What the
\* history keeps of a failed image is held, the size of the buffer it found.
decode_failed(msg) ==
  /\ frames' = Append(frames, [stamp |-> -1, decoded |-> FALSE,
                               held |-> Len(imu_queue_),
                               imu_since_prev_img |-> << >>])
  /\ UNCHANGED << imu_queue_, calls >>

\* imageCallback lines 59-94.
decode_succeeded(msg) ==
  LET cur_image_time == msg.stamp
      frame_end == find_if(imu_queue_, 1, cur_image_time)
      imu_since_prev_img == transform_get1(imu_queue_, frame_end)
  IN /\ calls' = calls \o image_calls(R_cam_imu_, imu_since_prev_img, cur_image_time,
                                      num_subscribers, Len(frames) + 1)
     /\ imu_queue_' = erase_begin_to(imu_queue_, frame_end)
     /\ frames' = Append(frames, [stamp |-> cur_image_time, decoded |-> TRUE,
                                  imu_since_prev_img |-> imu_since_prev_img])

imageCallback(msg) ==
  /\ img.pc = "idle"
  /\ IF msg.decodable THEN decode_succeeded(msg) ELSE decode_failed(msg)
  /\ UNCHANGED << params, runs, T_cam_imu, is_first_imu_, prev_imu_time_, R_cam_imu_,
                  num_subscribers, capacity, storage, img, imu_received >>

ImuArrives == MoreEvents /\ \E imu \in ImuMsgs : imuCallback(imu)

ImageArrives == MoreEvents /\ \E msg \in ImageMsgs : imageCallback(msg)

\* The callbacks of one node are run one at a time (ros::spin).
Next == ImuArrives \/ ImageArrives

Spec == Init /\ [][Next]_vars

----------------------------------------------------------------------------
\* imuCallback and imageCallback on different threads. Neither takes a lock,
\* so imuCallback can run between the statements of imageCallback that touch
\* imu_queue_: find_if (line 63), transform (line 66) and erase (line 77).

\* frame_end points into an allocation the vector has left.
dangling(it) == it.storage # storage

\* What a use of frame_end reaches: its own position while it is valid, and
\* any position of the vector once it dangles (undefined behaviour).
positions(it) == IF dangling(it) THEN 1..(Len(imu_queue_) + 1) ELSE {it.at}

\* Lines 47-64: decode, then find_if from begin() to end() (kept in last).
imageFindIf(msg) ==
  /\ img.pc = "idle"
  /\ IF msg.decodable
     THEN /\ img' = [pc |-> "transform", stamp |-> msg.stamp,
                     last |-> Len(imu_queue_) + 1,
                     frame_end |-> [storage |-> storage,
                                    at |-> find_if(imu_queue_, 1, msg.stamp)],
                     imu_since_prev_img |-> << >>]
          /\ UNCHANGED << imu_queue_, calls, frames >>
     ELSE /\ decode_failed(msg)
          /\ UNCHANGED img
  /\ UNCHANGED << params, runs, T_cam_imu, is_first_imu_, prev_imu_time_, R_cam_imu_,
                  num_subscribers, capacity, storage, imu_received >>

\* Lines 66-74: copy the prefix, forward each copied reading.
imageTransform ==
  /\ img.pc = "transform"
  /\ \E at \in positions(img.frame_end) :
       LET imu_since_prev_img == transform_get1(imu_queue_, at)
       IN /\ img' = [img EXCEPT !.pc = "erase",
                                !.imu_since_prev_img = imu_since_prev_img]
          /\ calls' = calls \o gyro_calls(R_cam_imu_, imu_since_prev_img,
                                          Len(frames) + 1)
  /\ UNCHANGED << params, runs, T_cam_imu, imu_queue_, is_first_imu_, prev_imu_time_, R_cam_imu_,
                  num_subscribers, capacity, storage, imu_received, frames >>

\* Lines 77-94: erase the prefix, hand the image to the tracker, publish.
imageErase ==
  /\ img.pc = "erase"
  /\ \E at \in positions(img.frame_end) :
       imu_queue_' = erase_begin_to(imu_queue_, at)
  /\ calls' = calls \o frame_calls(img.stamp, num_subscribers, Len(frames) + 1)
  /\ frames' = Append(frames, [stamp |-> img.stamp, decoded |-> TRUE,
                               imu_since_prev_img |-> img.imu_since_prev_img])
  /\ img' = Idle
  /\ UNCHANGED << params, runs, T_cam_imu, is_first_imu_, prev_imu_time_, R_cam_imu_,
                  num_subscribers, capacity, storage, imu_received >>

\* A use of the dangling frame_end faults and the node dies.
imageCrash ==
  /\ img.pc \in {"transform", "erase"}
  /\ dangling(img.frame_end)
  /\ img' = [img EXCEPT !.pc = "crashed"]
  /\ UNCHANGED << params, runs, T_cam_imu, imu_queue_, is_first_imu_, prev_imu_time_, R_cam_imu_,
                  num_subscribers, capacity, storage, calls, imu_received, frames >>

ImageStarts == MoreEvents /\ \E msg \in ImageMsgs : imageFindIf(msg)

NextConc == ImuArrives \/ ImageStarts \/ imageTransform \/ imageErase \/ imageCrash

SpecConc == Init /\ [][NextConc]_vars

----------------------------------------------------------------------------
\* Starting the node: the constructor runs load_parameters and
\* setup_track_handler on the parameters of the launch. No message is
\* delivered here.

\* Starts of the node on the same parameters.
MaxRuns == 2

InitLoad ==
  /\ params \in Configs
  /\ runs = << >>
  /\ T_cam_imu = QuarterTurn
  /\ R_cam_imu_ = load_R_cam_imu(QuarterTurn)
  /\ imu_queue_ = << >>
  /\ is_first_imu_ = is_first_imu_at_start
  /\ prev_imu_time_ = 0
  /\ num_subscribers = 0
  /\ capacity = 0
  /\ storage = 0
  /\ img = Idle
  /\ calls = << >>
  /\ imu_received = << >>
  /\ frames = << >>

NodeStarts ==
  /\ Len(runs) < MaxRuns
  /\ \E junk \in [unassigned(params.T_cam_imu) -> Indeterminate],
        member_ransac \in IndeterminateFloats :
       LET run == constructed(params, junk, member_ransac)
       IN /\ runs' = Append(runs, run)
          /\ R_cam_imu_' = (IF run.aborted THEN R_cam_imu_
                            ELSE run.members[1].R_cam_imu_)
  /\ UNCHANGED << params, T_cam_imu, imu_queue_, is_first_imu_, prev_imu_time_,
                  num_subscribers, capacity, storage, img, calls, imu_received,
                  frames >>

NextLoad == NodeStarts

SpecLoad == InitLoad /\ [][NextLoad]_vars

----------------------------------------------------------------------------
\* Vocabulary of the properties.

Last(s) == s[Len(s)]

RECURSIVE Flatten(_)
Flatten(ss) == IF ss = << >> THEN << >> ELSE Head(ss) \o Flatten(Tail(ss))

\* The readings every imageCallback so far has copied out of the buffer.
AllCopied == Flatten([k \in 1..Len(frames) |-> frames[k].imu_since_prev_img])

\* The readings now in the buffer, and every reading that was ever in it.
Buffered == [i \in 1..Len(imu_queue_) |-> imu_queue_[i][2]]
AllEnqueued == AllCopied \o Buffered

GyroCalls == SelectSeq(calls, LAMBDA c : c.op = "add_gyro_reading")

\* The calls a step has added to the history.
NewCalls == SubSeq(calls', Len(calls) + 1, Len(calls'))

\* The step is an imuCallback / an imageCallback that returned.
ImuStep == Len(imu_received') = Len(imu_received) + 1
ImageStep == Len(frames') = Len(frames) + 1
DecodedStep == ImageStep /\ Last(frames').decoded
FailedStep == ImageStep /\ ~Last(frames').decoded

\* Timestamps do not decrease from front to back.
NonDecreasing(q) == \A i, j \in 1..Len(q) : i < j => q[i][1] <= q[j][1]

\* How many leading elements of q come before the first one stamped after t.
PrefixUpTo(q, t) ==
  LET later == { i \in 1..Len(q) : q[i][1] > t }
  IN IF later = {} THEN Len(q)
     ELSE (CHOOSE i \in later : \A j \in later : i <= j) - 1

\* C1: a decoded image stamped t removes from the buffer exactly the leading
\* elements that come before the first element stamped after t (an element
\* stamped t goes, and everything goes when no element is stamped after t);
\* the removed elements are the ones copied for forwarding.
C1_DrainsMaximalPrefix ==
  [][DecodedStep =>
       LET k == PrefixUpTo(imu_queue_, Last(frames').stamp)
       IN /\ imu_queue_' = SubSeq(imu_queue_, k + 1, Len(imu_queue_))
          /\ Last(frames').imu_since_prev_img = [i \in 1..k |-> imu_queue_[i][2]]]_vars

\* A decoded image has taken a sample off the buffer and left a later one.
C1_Witness ==
  /\ frames # << >>
  /\ Last(frames).decoded
  /\ Last(frames).imu_since_prev_img # << >>
  /\ imu_queue_ # << >>
  /\ imu_queue_[1][1] > Last(frames).stamp

\* C2: when the buffer's timestamps are non-decreasing, a decoded image
\* stamped t copies out exactly the samples stamped <= t and leaves exactly
\* the samples stamped > t, both in arrival order.
C2_PartitionComplete ==
  [][DecodedStep /\ NonDecreasing(imu_queue_) =>
       LET t == Last(frames').stamp
           upto == SelectSeq(imu_queue_, LAMBDA x : x[1] <= t)
           after == SelectSeq(imu_queue_, LAMBDA x : x[1] > t)
       IN /\ Last(frames').imu_since_prev_img = [i \in 1..Len(upto) |-> upto[i][2]]
          /\ imu_queue_' = after]_vars

\* The first image of the run split a sorted buffer of two samples in two.
C2_Witness ==
  /\ Len(frames) = 1
  /\ frames[1].decoded
  /\ Len(frames[1].imu_since_prev_img) = 1
  /\ Len(imu_queue_) = 1
  /\ Len(imu_received) = 3
  /\ imu_received[2].stamp <= frames[1].stamp
  /\ imu_received[3].stamp > frames[1].stamp

\* C3: whenever no callback is running, the readings copied out so far
\* followed by the buffer are the inertial messages received after the
\* first, in arrival order, and each copied reading was forwarded by one
\* add_gyro_reading call.
C3_NoDuplicationNoLoss ==
  img.pc = "idle" =>
    LET copied == AllCopied
        all == copied \o Buffered
        n == Len(imu_received)
    IN /\ Len(all) = (IF n = 0 THEN 0 ELSE n - 1)
       /\ \A j \in 1..Len(all) :
            /\ all[j].omega = imu_received[j + 1].angular_velocity
            /\ all[j].a = imu_received[j + 1].linear_acceleration
       /\ \A i \in 1..Len(imu_queue_) :
            imu_queue_[i][1] = imu_received[n - Len(imu_queue_) + i].stamp
       /\ Len(GyroCalls) = Len(copied)

\* Two images have each forwarded a sample.
C3_Witness ==
  /\ Len(frames) >= 2
  /\ frames[1].imu_since_prev_img # << >>
  /\ frames[2].imu_since_prev_img # << >>

\* C6: the dT of every sample that was enqueued is its timestamp minus the
\* timestamp of the inertial message received just before it.
C6_dTIsGapToPrevious ==
  img.pc = "idle" =>
    LET all == AllEnqueued
    IN \A j \in 1..Len(all) :
         j + 1 <= Len(imu_received) =>
           all[j].dT = imu_received[j + 1].stamp - imu_received[j].stamp

\* C4: imuCallback never runs between the statements of an imageCallback
\* that touch the buffer (the buffer still ends where find_if saw it end and
\* frame_end still points into it), the node does not fault, and between
\* callbacks no sample has been lost or forwarded twice.
C4_ExclusiveAccess ==
  /\ img.pc \in {"transform", "erase"} =>
        /\ Len(imu_queue_) + 1 = img.last
        /\ ~dangling(img.frame_end)
  /\ img.pc # "crashed"
  /\ C3_NoDuplicationNoLoss

\* The calls the imageCallback of frame k made, add_gyro_reading and
\* set_current_image only.
GyroAndImageCalls(k) ==
  SelectSeq(calls, LAMBDA c : c.frame = k
                              /\ c.op \in {"add_gyro_reading", "set_current_image"})

\* R^T * v, written out: component i is column i of R times v.
RotatedIntoCamera(R, v) ==
  << R[1][1] * v[1] + R[2][1] * v[2] + R[3][1] * v[3],
     R[1][2] * v[1] + R[2][2] * v[2] + R[3][2] * v[3],
     R[1][3] * v[1] + R[2][3] * v[2] + R[3][3] * v[3] >>

\* C5: for every decoded image the history holds one add_gyro_reading per
\* copied reading, in the readings' order, then the image's
\* set_current_image, and no add_gyro_reading of that image after it; the
\* calls of an earlier image all come before those of a later one.
C5_GyroBeforeImage ==
  img.pc = "idle" =>
    /\ \A k \in 1..Len(frames) :
         frames[k].decoded =>
           LET mine == GyroAndImageCalls(k)
               n == Len(frames[k].imu_since_prev_img)
           IN /\ Len(mine) = n + 1
              /\ \A i \in 1..n : mine[i].op = "add_gyro_reading"
              /\ \A i \in 1..n :
                   mine[i].v = RotatedIntoCamera(R_cam_imu_,
                                                 frames[k].imu_since_prev_img[i].omega)
              /\ mine[n + 1].op = "set_current_image"
              /\ mine[n + 1].t = frames[k].stamp
    /\ \A i, j \in 1..Len(calls) : i < j => calls[i].frame <= calls[j].frame

\* An image forwarded two different readings and was then handed over.
C5_Witness ==
  \E k \in 1..Len(frames) :
    /\ Len(frames[k].imu_since_prev_img) >= 2
    /\ frames[k].imu_since_prev_img[1].omega # frames[k].imu_since_prev_img[2].omega
    /\ \E i \in 1..Len(calls) : calls[i].op = "set_current_image" /\ calls[i].frame = k

\* C7: the first inertial message only sets prev_imu_time_: the buffer and
\* the call history stay as they are; every later message puts one sample
\* with its stamp, acceleration and angular velocity at the tail of the
\* buffer. No more readings are ever forwarded than messages came after the
\* first.
C7_FirstSampleOnlySeeds ==
  /\ [][ImuStep =>
          LET imu == Last(imu_received')
          IN IF imu_received = << >>
             THEN /\ imu_queue_' = imu_queue_
                  /\ calls' = calls
                  /\ prev_imu_time_' = imu.stamp
             ELSE /\ Len(imu_queue_') = Len(imu_queue_) + 1
                  /\ SubSeq(imu_queue_', 1, Len(imu_queue_)) = imu_queue_
                  /\ Last(imu_queue_')[1] = imu.stamp
                  /\ Last(imu_queue_')[2].omega = imu.angular_velocity
                  /\ Last(imu_queue_')[2].a = imu.linear_acceleration
                  /\ calls' = calls]_vars
  /\ [](Len(GyroCalls) + Len(imu_queue_) <= Len(imu_received) - 1
        \/ (imu_received = << >> /\ imu_queue_ = << >> /\ GyroCalls = << >>))

\* Three inertial messages have left two samples in the buffer.
C7_Witness ==
  /\ Len(imu_received) = 3
  /\ Len(imu_queue_) = 2
  /\ ~is_first_imu_

\* C8: an image that fails to decode changes neither the buffer nor the
\* call history, and no call in the history was ever made for such an image.
C8_DecodeFailureDropsImage ==
  /\ [][FailedStep => imu_queue_' = imu_queue_ /\ calls' = calls]_vars
  /\ [](\A i \in 1..Len(calls) :
          calls[i].frame <= Len(frames) => frames[calls[i].frame].decoded)

\* An image failed to decode while the buffer held a sample, and a later
\* image was decoded.
C8_Witness ==
  /\ Len(frames) >= 2
  /\ ~frames[1].decoded
  /\ frames[2].decoded
  /\ frames[2].imu_since_prev_img # << >>

\* C9: an image decoded while the buffer is empty forwards no reading,
\* leaves the buffer empty and is handed to the tracker by one
\* set_current_image with its stamp.
C9_EmptyBufferStillTracks ==
  [][DecodedStep /\ imu_queue_ = << >> =>
       /\ imu_queue_' = << >>
       /\ Last(frames').imu_since_prev_img = << >>
       /\ SelectSeq(NewCalls, LAMBDA c : c.op = "add_gyro_reading") = << >>
       /\ LET handed == SelectSeq(NewCalls, LAMBDA c : c.op = "set_current_image")
          IN Len(handed) = 1 /\ handed[1].t = Last(frames').stamp]_vars

\* The first message of the run was an image, and it was decoded.
C9_Witness ==
  /\ imu_received = << >>
  /\ Len(frames) = 1
  /\ frames[1].decoded
  /\ calls # << >>

\* C10: R_cam_imu_ is the top-left 3x3 block of T_cam_imu; the i-th
\* add_gyro_reading of the run carries R_cam_imu_^T times the angular
\* velocity of the i-th copied reading; and every reading, copied or still
\* buffered, keeps the angular velocity its message arrived with.
C10_ForwardsRotatedReading ==
  img.pc = "idle" =>
    LET copied == AllCopied
        all == copied \o Buffered
        gyro == GyroCalls
    IN /\ \A i, j \in 1..3 : R_cam_imu_[i][j] = T_cam_imu[i][j]
       /\ Len(gyro) = Len(copied)
       /\ \A i \in 1..Len(gyro) :
            gyro[i].v = RotatedIntoCamera(R_cam_imu_, copied[i].omega)
       /\ \A j \in 1..Len(all) :
            j + 1 <= Len(imu_received) =>
              all[j].omega = imu_received[j + 1].angular_velocity

\* Under the quarter turn about z, angular velocity (1, 2, 3) was forwarded
\* as (2, -1, 3).
C10_Witness ==
  /\ R_cam_imu_ = << <<0, -1, 0>>, <<1, 0, 0>>, <<0, 0, 1>> >>
  /\ \E i \in 1..Len(calls) :
       calls[i].op = "add_gyro_reading" /\ calls[i].v = <<2, -1, 3>>

----------------------------------------------------------------------------
\* Properties of starting the node.

\* Equal fractions.
SameFraction(a, b) == a.num * b.den = b.num * a.den

\* x squared over f squared.
SquaredRatio(x, f) == [num |-> x * x, den |-> f * f]

\* The value a parameter supplies: its own, or the documented default.
ValueOr(p, default) == IF p.present THEN p.value ELSE default

\* The starts of the node that got through the constructor.
Completed == { k \in 1..Len(runs) : ~runs[k].aborted }

\* C11: after load_parameters, pixel_noise_u is (feature_pixel_std / f_u)^2
\* and pixel_noise_v is (feature_pixel_std / f_v)^2, f_u and f_v being the
\* first and second raw intrinsics and feature_pixel_std defaulting to 7.
C11_PixelNoiseFromFocalLengths ==
  \A k \in Completed :
    LET noise == runs[k].members[1].noise_params_
        std == ValueOr(params.feature_covariance, 7)
    IN /\ SameFraction(noise.u_var_prime, SquaredRatio(std, params.intrinsics[1]))
       /\ SameFraction(noise.v_var_prime, SquaredRatio(std, params.intrinsics[2]))

\* T_cam_imu holds four rows of four numbers each.
WellFormedTransform(v) ==
  /\ v.type = "array"
  /\ Len(v.elems) = 4
  /\ \A i \in 1..4 :
       /\ v.elems[i].type = "array"
       /\ Len(v.elems[i].elems) = 4
       /\ \A j \in 1..4 : v.elems[i].elems[j].type \in {"double", "int"}

\* C12: a start of the node on a T_cam_imu that is absent, not an array of
\* arrays, not 4x4 or has a non-numeric entry ends the process: it never
\* gets to derive R_cam_imu_ and p_cam_imu_.
C12_MalformedTransformAborts ==
  ~WellFormedTransform(params.T_cam_imu) =>
     \A k \in 1..Len(runs) : runs[k].aborted

\* C13: two starts of the node on the same parameters end with the same
\* members and the same tracker configuration.
C13_DerivationDeterministic ==
  \A i, j \in 1..Len(runs) : runs[i] = runs[j]

\* C14: the tracker's RANSAC threshold is the ransac_threshold_ parameter, or
\* 0.000002 without it, and its grid is n_grid_rows x n_grid_cols, 8 x 8
\* without them.
C14_TrackerGetsLoadedThreshold ==
  \A k \in Completed :
    LET tracker == runs[k].track_handler_[1]
    IN /\ tracker.ransac_threshold = ValueOr(params.ransac_threshold_, Dec(2, -6))
       /\ tracker.grid_rows = ValueOr(params.n_grid_rows, 8)
       /\ tracker.grid_cols = ValueOr(params.n_grid_cols, 8)

\* C17: camera_'s f_u, f_v, c_u, c_v are K_(0,0), K_(1,1), K_(0,2), K_(1,2),
\* and the max optimization-cost norm is (max_gn_cost_norm / K_(0,0))^2 with
\* max_gn_cost_norm defaulting to 11.
C17_CameraAgreesWithK ==
  \A k \in Completed :
    LET m == runs[k].members[1]
    IN /\ m.camera_.f_u = m.K_[1][1]
       /\ m.camera_.f_v = m.K_[2][2]
       /\ m.camera_.c_u = m.K_[1][3]
       /\ m.camera_.c_v = m.K_[2][3]
       /\ SameFraction(m.msckf_params_.max_gn_cost_norm,
                       SquaredRatio(ValueOr(params.max_gn_cost_norm, 11), m.K_[1][1]))

\* C18: keyframe_transl_dist (default 0.005) is the distance redundancy
\* threshold, keyframe_rot_dist (default 0.05) the angle redundancy
\* threshold, and translation_threshold, min_rcond, max_track_length,
\* min_track_length and max_cam_states are stored as read (defaults 0.05,
\* 3e-12, 1000, 3, 20).
C18_ThresholdsPassThrough ==
  \A k \in Completed :
    LET f == runs[k].members[1].msckf_params_
    IN /\ f.redundancy_distance_thresh = ValueOr(params.keyframe_transl_dist, Dec(5, -3))
       /\ f.redundancy_angle_thresh = ValueOr(params.keyframe_rot_dist, Dec(5, -2))
       /\ f.translation_threshold = ValueOr(params.translation_threshold, Dec(5, -2))
       /\ f.min_rcond = ValueOr(params.min_rcond, Dec(3, -12))
       /\ f.max_track_length = ValueOr(params.max_track_length, 1000)
       /\ f.min_track_length = ValueOr(params.min_track_length, 3)
       /\ f.max_cam_states = ValueOr(params.max_cam_states, 20)

----------------------------------------------------------------------------
\* Properties of the buffer and of the diagnostic output.

\* The stamps of the inertial messages received so far, in arrival order.
ArrivalStamps == [i \in 1..Len(imu_received) |-> << imu_received[i].stamp >>]

\* C16: as long as the inertial messages have arrived with non-decreasing
\* stamps, the stamps in the buffer do not decrease from front to back,
\* whatever appends, drains and decode failures have happened.
C16_BufferStaysSorted ==
  NonDecreasing(ArrivalStamps) => NonDecreasing(imu_queue_)

\* Two samples with different stamps wait in the buffer after an image has
\* drained an earlier one.
C16_Witness ==
  /\ NonDecreasing(ArrivalStamps)
  /\ Len(imu_queue_) = 2
  /\ imu_queue_[1][1] < imu_queue_[2][1]
  /\ Len(frames) = 1
  /\ frames[1].imu_since_prev_img # << >>

\* The names of the calls a step has added after its add_gyro_reading calls.
NewOpsAfterGyro ==
  LET after == SelectSeq(NewCalls, LAMBDA c : c.op # "add_gyro_reading")
  IN [i \in 1..Len(after) |-> after[i].op]

\* C19: publish_extra is entered once per decoded image, after
\* set_current_image, tracked_features and new_features; it fetches and
\* publishes the track image exactly when the output has a subscriber and
\* otherwise does nothing; it forwards nothing to the tracker and the buffer
\* is what the drain left. No other step reaches it.
C19_PublishesOnlyWhenSubscribed ==
  /\ [][DecodedStep =>
          /\ NewOpsAfterGyro =
               << "set_current_image", "tracked_features", "new_features", "publish_extra" >>
               \o (IF num_subscribers > 0 THEN << "get_track_image", "publish" >> ELSE << >>)
          /\ \A i, j \in 1..Len(NewCalls) :
               NewCalls[i].op = "publish_extra" /\ i < j =>
                 NewCalls[j].op \in {"get_track_image", "publish"}
          /\ imu_queue_' = SubSeq(imu_queue_, Len(Last(frames').imu_since_prev_img) + 1,
                                  Len(imu_queue_))]_vars
  /\ [][~DecodedStep => calls' = calls]_vars

\* An image was decoded with nobody subscribed, forwarding a sample and
\* leaving another in the buffer.
C19_Witness ==
  /\ num_subscribers = 0
  /\ Len(frames) >= 1
  /\ Last(frames).decoded
  /\ Last(frames).imu_since_prev_img # << >>
  /\ imu_queue_ # << >>
  /\ \E i \in 1..Len(calls) : calls[i].op = "publish_extra" /\ calls[i].frame = Len(frames)

\* The n-th sample ever put in the buffer is the message that arrived n-th
\* after the one that only seeded prev_imu_time_.
EnqueuedMsg(n) == imu_received[n + (IF is_first_imu_at_start THEN 1 ELSE 0)]

\* How many samples the images before the k-th have copied out of the buffer.
CopiedBefore(k) ==
  Len(Flatten([j \in 1..(k - 1) |-> frames[j].imu_since_prev_img]))

\* The samples (by their place among all enqueued ones) that were in the
\* buffer when the k-th image failed to decode.
HeldAtFailure(k) == (CopiedBefore(k) + 1)..(CopiedBefore(k) + frames[k].held)

\* The decoded images after the k-th that are stamped at or after sample n.
Qualifying(k, n) ==
  { j \in (k + 1)..Len(frames) :
      frames[j].decoded /\ frames[j].stamp >= EnqueuedMsg(n).stamp }

\* C15: with inertial stamps arriving in non-decreasing order, a sample that
\* was in the buffer when an image failed to decode is forwarded by the
\* first later decoded image stamped at or after it, at its place in arrival
\* order and by one add_gyro_reading, and stays in the buffer while no such
\* image has come.
C15_FailureDelaysNeverLoses ==
  NonDecreasing(ArrivalStamps) /\ img.pc = "idle" =>
    \A k \in 1..Len(frames) :
      ~frames[k].decoded =>
        \A n \in HeldAtFailure(k) :
          IF Qualifying(k, n) = {}
          THEN /\ n > Len(AllCopied)
               /\ n - Len(AllCopied) <= Len(imu_queue_)
               /\ imu_queue_[n - Len(AllCopied)][1] = EnqueuedMsg(n).stamp
               /\ Len(GyroCalls) < n
          ELSE LET j == CHOOSE j \in Qualifying(k, n) : \A i \in Qualifying(k, n) : j <= i
               IN /\ CopiedBefore(j) < n
                  /\ n <= CopiedBefore(j + 1)
                  /\ frames[j].imu_since_prev_img[n - CopiedBefore(j)].omega
                       = EnqueuedMsg(n).angular_velocity
                  /\ Len(GyroCalls) = Len(AllCopied)
                  /\ GyroCalls[n].frame = j
                  /\ GyroCalls[n].v = RotatedIntoCamera(R_cam_imu_,
                                                        EnqueuedMsg(n).angular_velocity)

\* An image failed to decode with two samples in the buffer; the next
\* decoded image was stamped before the second of them and forwarded the
\* first only.
C15_Witness ==
  /\ NonDecreasing(ArrivalStamps)
  /\ Len(frames) = 2
  /\ ~frames[1].decoded
  /\ frames[1].held = 2
  /\ frames[2].decoded
  /\ Len(frames[2].imu_since_prev_img) = 1
  /\ Len(imu_queue_) = 1
  /\ Len(GyroCalls) = 1

====
